---- MODULE Spec2Model ----
(***************************************************************************)
(* The JSON-RPC-over-stdio bridge of the agent scripts.                    *)
(*                                                                         *)
(*   variant "cli"    : src/01_Subnet_Calculator/agent.py and              *)
(*                      src/02_pyATS/agent.py (same bridge code)           *)
(*   variant "legacy" : src/agent.py (inline writes, own receive loop)     *)
(*   variant "app"    : src/02_pyATS/app.py (Streamlit script, the child   *)
(*                      lives in st.session_state across script reruns)    *)
(*                                                                         *)
(* The parent's main thread is a sequential program with a program         *)
(* counter; the child process is the environment: it may write any line to *)
(* its stdout at any time, and it may exit.                                *)
(***************************************************************************)
EXTENDS Integers, Sequences, FiniteSets, TLC

\* ---- bounds ----
MaxWrites == 5      \* messages written to one child's stdin
MaxQueue == 1       \* unread lines held in the child's stdout pipe
TimeoutTicks == 1   \* the mcp_recv timeout, in clock ticks
MaxSpawns == 2      \* children started by the app in one session
MaxErr == 1          \* lines the child's stderr pipe holds before a write blocks
AddrBits == 6        \* width of an address (IPv4: 32)
MaxCmdLen == 4       \* pieces of text in a command
MaxTestbeds == 2    \* distinct testbed file names the user uploads

MaxId == MaxWrites

\* program constants
MAX_HOST_PREVIEW == 10
NoId == 0           \* the envelope has no "id" member

Variants == {"cli", "legacy", "app"}

\* ---- lines on the child's stdout ----
Envelope(i, r, e) == [kind |-> "obj", id |-> i, result |-> r, error |-> e]
Blank == [kind |-> "blank", id |-> NoId, result |-> "none", error |-> "none"]
Garbage == [kind |-> "garbage", id |-> NoId, result |-> "none", error |-> "none"]
Scalar == [kind |-> "scalar", id |-> NoId, result |-> "none", error |-> "none"]
Envelopes == {Envelope(i, r, e) : i \in 0..MaxId, r \in {"none", "r1"}, e \in {"none", "e1"}}
Lines == {Blank, Garbage, Scalar} \cup Envelopes

\* a Response or an ErrorResponse: an envelope with an id and a result or an error
IsReply(l) == l.kind = "obj" /\ l.id # NoId /\ (l.result # "none" \/ l.error # "none")

\* ---- messages on the child's stdin ----
\* a notification that is given an id
MsgWithId(m, i) == [method |-> m, id |-> IF i = NoId THEN 1 ELSE i]

\* a message on the child's stdin: its method and its id (NoId: no "id" member)
Msg(m, i) == [method |-> m, id |-> i]

NoOutcome == [op |-> "none", kind |-> "none", cause |-> "none", rid |-> NoId, env |-> Blank, payload |-> "none"]
Outcome(o, k, c, r, e, p) == [op |-> o, kind |-> k, cause |-> c, rid |-> r, env |-> e, payload |-> p]

VARIABLES
  variant,        \* which script runs
  pc,             \* position of the parent's main thread
  request_id,     \* request_id / request_id_counter
  rid,            \* the id the current wait is for
  op,             \* the function that waits: "init", "list", "call"
  fname,          \* call_tool's parameter name while it waits
  proc_alive,     \* the child process mcp_proc runs
  stderr,         \* lines in the child's stderr pipe that log_stderr has not read
  drainedBlocked, \* log_stderr has read a line while the main thread was blocked
  stdout,         \* lines the child wrote and the parent has not read
  stdin,          \* every message written to the current child, in order
  elapsed,        \* time.time() - start of the running receive loop
  callElapsed,    \* time since the request of the current call was written
  outcome,        \* how the last bridge operation ended
  abandoned,      \* ids whose wait ended with a timeout
  discarded,      \* ids of skipped replies to a request that was never
                  \* awaited or whose wait had timed out
  session_state,  \* app.py: st.session_state
  uploaded,       \* app.py: the file held by the uploader widget (0: none)
  event,          \* app.py: the widget event that triggered the script run
  spawns,         \* app.py: children started so far
  orphans,        \* app.py: live children the session no longer refers to
  arg,            \* the argument of the function under examination
  ret,            \* <<what that function returned or raised>>, <<>> before the call
  master          \* master_agent.py: its two threads and the global router_agent

agentvars == <<variant, pc, request_id, rid, op, fname, proc_alive, stderr,
               drainedBlocked, stdout, stdin, elapsed, callElapsed, outcome,
               abandoned, discarded, session_state, uploaded, event, spawns, orphans>>

\* the functions that are examined on their own take arg and set ret
pure == <<arg, ret, master>>

vars == <<agentvars, pure>>

errpipe == <<stderr, drainedBlocked>>

bridge == <<request_id, rid, op, fname, stdin, elapsed, callElapsed, outcome,
            abandoned, discarded>>
appvars == <<session_state, uploaded, event, spawns, orphans>>

EmptySession == [mcp_proc |-> FALSE, current_testbed |-> 0, tools |-> FALSE]

\* no function is under examination
NoValue == <<>>

\* the agent right after the module-level code has run
\* master_agent.py at import: router_agent = None, no thread started
MasterStart ==
  [main |-> "init", server |-> "none", router_agent |-> FALSE, slept |-> 0,
   registry |-> {}, results |-> <<>>]

AgentInit ==
  /\ master = MasterStart
  /\ variant \in Variants
  /\ pc = IF variant = "app" THEN "app_idle" ELSE "start"
  /\ request_id = 0
  /\ rid = NoId
  /\ fname = "none"
  /\ stderr = 0
  /\ drainedBlocked = FALSE
  /\ op = "none"
  /\ proc_alive = (variant # "app")
  /\ stdout = <<>>
  /\ stdin = <<>>
  /\ elapsed = 0
  /\ callElapsed = 0
  /\ outcome = NoOutcome
  /\ abandoned = {}
  /\ discarded = {}
  /\ session_state = EmptySession
  /\ uploaded = 0
  /\ event = "none"
  /\ spawns = 0
  /\ orphans = 0

Init == AgentInit /\ arg = NoValue /\ ret = NoValue

\* ---- the bridge's helpers ----

\* the ids of the requests written to the current child
WrittenIds == {stdin[k].id : k \in 1..Len(stdin)} \ {NoId}

\* requests that are written and never waited for: initialize_mcp reads nothing
Unawaited == {stdin[k].id : k \in {j \in 1..Len(stdin) : stdin[j].method = "initialize"}}

\* a counter that stops counting: an id is handed out again
next_id_stuck(c) == IF c < 3 THEN c + 1 ELSE c

\* next_id(): the counter after the increment, which is also the id returned
next_id(c) == c + 1

\* mcp_proc.stdin.write + flush succeed only while the child holds the pipe
PipeOpen == proc_alive

\* mcp_proc.stdout.readline(): blocks until a line is there or the pipe is at EOF
CanRead == stdout # <<>> \/ ~proc_alive
NextLine == IF stdout # <<>> THEN Head(stdout) ELSE Blank
RestOfStdout == IF stdout # <<>> THEN Tail(stdout) ELSE stdout

\* the first envelope read is taken as the answer, whatever its id
IdMatchesAny(l, r) == TRUE

\* an envelope with an older id is taken as the answer as well
IdMatchesStale(l, r) == l.id # NoId /\ l.id <= r

\* resp.get("id") == rid
IdMatches(l, r) == l.id = r

\* resp.get("result", {}) and, for tools/list, .get("tools", [])
ResultOf(l) == IF l.result = "none" THEN "empty" ELSE l.result

\* the exception kind of a timed out wait
TimeoutKind(v) == IF v = "legacy" THEN "RuntimeError" ELSE "TimeoutError"

\* the result member is looked at before the error member
CallResultFirst(l, r) ==
  IF l.result # "none"
  THEN Outcome("call", "return", "result", r, l, l.result)
  ELSE IF l.error # "none"
       THEN Outcome("call", "RuntimeError", "remote", r, l, l.error)
       ELSE Outcome("call", "return", "result", r, l, "empty")

\* what call_tool / call_subnet_calculator does with the envelope that has the awaited id
CallResult(l, r) ==
  IF l.error # "none"
  THEN Outcome("call", "RuntimeError", "remote", r, l, l.error)
  ELSE Outcome("call", "return", "result", r, l, ResultOf(l))

\* what get_tool_list does with the envelope that has the awaited id
ListResult(l, r) == Outcome("list", "return", "result", r, l, ResultOf(l))

\* a __main__ without the finally clause: the child is left as it is
FinallySkipped(alive) == alive

\* the finally clause of __main__: mcp_proc.terminate(); mcp_proc.wait()
\* returns when the child is gone
Finally(alive) == FALSE

\* a REPL that runs the handshake again after every tool call that returned
AfterOpReinit(v, o) ==
  IF v = "app"
  THEN IF o.kind = "return" THEN "app_run" ELSE "app_idle"
  ELSE IF o.op = "call" THEN (IF o.kind = "return" THEN "start" ELSE "prompt")
       ELSE IF o.kind = "return" THEN "prompt" ELSE "exited"

\* where the main thread goes when a bridge operation ends
AfterOp(v, o) ==
  IF v = "app"
  THEN IF o.kind = "return" THEN "app_run" ELSE "app_idle"
  ELSE IF o.op = "call" THEN "prompt"
       ELSE IF o.kind = "return" THEN "prompt" ELSE "exited"

\* an operation ends with outcome o: the caller, the except clauses and the
\* finally clause of __main__ decide what runs next; the locals of the
\* function that waited are gone
Complete(o) ==
  /\ outcome' = o
  /\ pc' = AfterOp(variant, o)
  /\ proc_alive' = IF AfterOp(variant, o) = "exited" THEN Finally(proc_alive) ELSE proc_alive
  /\ session_state' = IF variant = "app" /\ o.op = "list" /\ o.kind = "return"
                      THEN [session_state EXCEPT !.tools = TRUE]
                      ELSE session_state
  /\ event' = "none"
  /\ rid' = NoId /\ op' = "none" /\ fname' = "none"
  /\ elapsed' = 0 /\ callElapsed' = 0

BrokenPipe(o) == Outcome(o, "BrokenPipeError", "pipe", NoId, Blank, "none")

\* ---- initialize_mcp ----

InitializeRequest ==
  /\ pc = "start"
  /\ request_id < MaxId /\ Len(stdin) < MaxWrites
  /\ request_id' = next_id(request_id)
  /\ IF PipeOpen
     THEN /\ stdin' = Append(stdin, Msg("initialize", request_id'))
          /\ pc' = "init_sleep"
          /\ UNCHANGED <<outcome, proc_alive, session_state, event, rid, op, fname,
                         elapsed, callElapsed>>
     ELSE /\ Complete(BrokenPipe("init"))
          /\ UNCHANGED stdin
  /\ UNCHANGED <<variant, pure, errpipe, stdout, abandoned, discarded, uploaded, spawns, orphans>>

InitializedNotification ==
  /\ pc = "init_sleep"
  /\ Len(stdin) < MaxWrites
  /\ request_id' = IF variant = "legacy" THEN request_id + 1 ELSE request_id
  /\ IF PipeOpen
     THEN /\ stdin' = Append(stdin, Msg("notifications/initialized", NoId))
          /\ pc' = IF variant = "legacy" THEN "prompt" ELSE "discover"
          /\ UNCHANGED <<outcome, proc_alive, session_state, event, rid, op, fname,
                         elapsed, callElapsed>>
     ELSE /\ Complete(BrokenPipe("init"))
          /\ UNCHANGED stdin
  /\ UNCHANGED <<variant, pure, errpipe, stdout, abandoned, discarded, uploaded, spawns, orphans>>

\* ---- get_tool_list / call_tool / call_subnet_calculator: the request ----

\* rid = next_id(); mcp_send(request); the first mcp_recv() starts its clock
SendRequest(c, method, o, name) ==
  /\ Len(stdin) < MaxWrites
  /\ request_id' = next_id(c)
  /\ IF PipeOpen
     THEN /\ stdin' = Append(stdin, Msg(method, request_id'))
          /\ rid' = request_id'
          /\ op' = o
          /\ fname' = name
          /\ pc' = "recv"
          /\ elapsed' = 0
          /\ callElapsed' = 0
          /\ UNCHANGED <<outcome, proc_alive, session_state, event>>
     ELSE /\ Complete(BrokenPipe(o))
          /\ UNCHANGED stdin
  /\ UNCHANGED <<variant, pure, errpipe, stdout, abandoned, discarded, uploaded, spawns, orphans>>

GetToolListSend ==
  /\ pc = "discover"
  /\ request_id < MaxId
  /\ SendRequest(request_id, "tools/list", "list", "none")

\* the function names the model may ask for, and the names a tools/list
\* result holds: "r1" lists the tool t1, a missing result lists nothing
ToolNames == {"t1", "bogus"}
ToolsIn(p) == IF p = "r1" THEN {"t1"} ELSE {}

\* call_tool(name, args): the name goes into params and is not looked at
CallTool(name) ==
  /\ pc = "prompt"
  /\ request_id < MaxId
  /\ SendRequest(request_id, "tools/call", "call", name)

\* src/agent.py always calls subnet_calculator
CallToolSend ==
  \E name \in (IF variant = "legacy" THEN {"t1"} ELSE ToolNames) : CallTool(name)

\* ---- mcp_recv and the loops around it ----

\* while time.time() - start < timeout: the check passes, readline() is entered
RecvCheckPass ==
  /\ pc = "recv"
  /\ elapsed < TimeoutTicks
  /\ pc' = "readline"
  /\ UNCHANGED <<variant, pure, errpipe, proc_alive, stdout, bridge, appvars>>

\* the check fails: raise TimeoutError (src/agent.py: RuntimeError)
RecvTimeout ==
  /\ pc = "recv"
  /\ elapsed >= TimeoutTicks
  /\ abandoned' = abandoned \cup {rid}
  /\ Complete(Outcome(op, TimeoutKind(variant), "timeout", rid, Blank, "none"))
  /\ UNCHANGED <<variant, pure, errpipe, request_id, stdout, stdin, discarded, uploaded, spawns, orphans>>

\* a receive loop that hands a blank line to json.loads: the decode error
\* ends the wait
ReadSkipBlankRaises ==
  /\ pc = "readline"
  /\ CanRead
  /\ NextLine.kind \in {"blank", "garbage"}
  /\ stdout' = RestOfStdout
  /\ Complete(Outcome(op, "JSONDecodeError", "blank", rid, NextLine, "none"))
  /\ UNCHANGED <<variant, pure, errpipe, request_id, stdin, abandoned, discarded,
                 uploaded, spawns, orphans>>

\* a blank line or the empty string at EOF (time.sleep, then the loop check),
\* or a line json.loads rejects (continue)
ReadSkip ==
  /\ pc = "readline"
  /\ CanRead
  /\ NextLine.kind \in {"blank", "garbage"}
  /\ stdout' = RestOfStdout
  /\ pc' = IF NextLine.kind = "blank" THEN "sleep" ELSE "recv"
  /\ UNCHANGED <<variant, pure, errpipe, proc_alive, bridge, appvars>>

\* json.loads returns a value that is not a dict: resp.get raises AttributeError
ReadNonObject ==
  /\ pc = "readline"
  /\ CanRead
  /\ NextLine.kind = "scalar"
  /\ stdout' = RestOfStdout
  /\ Complete(Outcome(op, "AttributeError", "nonobject", rid, NextLine, "none"))
  /\ UNCHANGED <<variant, pure, errpipe, request_id, stdin, abandoned, discarded, uploaded, spawns, orphans>>

\* resp.get("id") != rid: the envelope is dropped and the loop goes on
\* (a new mcp_recv() with a new start; src/agent.py keeps its start_time)
ReadMismatch ==
  /\ pc = "readline"
  /\ CanRead
  /\ NextLine.kind = "obj"
  /\ ~IdMatches(NextLine, rid)
  /\ stdout' = RestOfStdout
  /\ discarded' = IF IsReply(NextLine) /\ NextLine.id \in Unawaited \cup abandoned
                  THEN discarded \cup {NextLine.id}
                  ELSE discarded
  /\ elapsed' = IF variant = "legacy" THEN elapsed ELSE 0
  /\ pc' = IF variant = "legacy" THEN "sleep" ELSE "recv"
  /\ UNCHANGED <<variant, pure, errpipe, proc_alive, request_id, rid, op, fname, stdin, callElapsed,
                 outcome, abandoned, appvars>>

\* resp.get("id") == rid
ReadMatch ==
  /\ pc = "readline"
  /\ CanRead
  /\ NextLine.kind = "obj"
  /\ IdMatches(NextLine, rid)
  /\ stdout' = RestOfStdout
  /\ Complete(IF op = "list" THEN ListResult(NextLine, rid) ELSE CallResult(NextLine, rid))
  /\ UNCHANGED <<variant, pure, errpipe, request_id, stdin, abandoned, discarded, uploaded, spawns, orphans>>

\* time.sleep(0.05) (src/agent.py: 0.1) returns
WakeUp ==
  /\ pc = "sleep"
  /\ pc' = "recv"
  /\ UNCHANGED <<variant, pure, errpipe, proc_alive, stdout, bridge, appvars>>

\* the main thread is inside a receive loop
Waiting == pc \in {"recv", "readline", "sleep"}

\* the clock advances while the main thread is in a receive loop
Tick ==
  /\ Waiting
  /\ elapsed < TimeoutTicks \/ callElapsed < TimeoutTicks
  /\ elapsed' = IF elapsed < TimeoutTicks THEN elapsed + 1 ELSE elapsed
  /\ callElapsed' = IF callElapsed < TimeoutTicks THEN callElapsed + 1 ELSE callElapsed
  /\ UNCHANGED <<variant, pure, errpipe, pc, proc_alive, stdout, request_id, rid, op, fname, stdin,
                 outcome, abandoned, discarded, appvars>>

\* ---- react_agent: the REPL of the command line agents ----

\* the user enters 'exit': break, then the finally clause terminates the child
UserExit ==
  /\ pc = "prompt"
  /\ pc' = "exited"
  /\ proc_alive' = Finally(proc_alive)
  /\ UNCHANGED <<variant, pure, errpipe, stdout, bridge, appvars>>

\* the model answers without a function call
LLMReply ==
  /\ pc = "prompt"
  /\ outcome # Outcome("chat", "return", "reply", NoId, Blank, "none")
  /\ outcome' = Outcome("chat", "return", "reply", NoId, Blank, "none")
  /\ UNCHANGED <<variant, pure, errpipe, pc, proc_alive, stdout, request_id, rid, op, fname, stdin, elapsed,
                 callElapsed, abandoned, discarded, appvars>>

\* client.chat.completions.create raises: inside the try of the cli agents,
\* outside any try in src/agent.py
LLMError ==
  /\ pc = "prompt"
  /\ outcome' = Outcome("chat", "APIError", "llm", NoId, Blank, "none")
  /\ pc' = IF variant = "legacy" THEN "exited" ELSE "prompt"
  /\ proc_alive' = IF variant = "legacy" THEN Finally(proc_alive) ELSE proc_alive
  /\ outcome' # outcome \/ pc' # pc
  /\ UNCHANGED <<variant, pure, errpipe, stdout, request_id, rid, op, fname, stdin, elapsed,
                 callElapsed, abandoned, discarded, appvars>>

\* ---- the child process ----

\* the child writes a line: noise, a notification, or an envelope that carries
\* the id of a request it has received
ChildWrite ==
  /\ proc_alive
  /\ Len(stdout) < MaxQueue
  /\ \E l \in Lines :
       /\ l.id \in WrittenIds \cup {NoId}
       /\ stdout' = Append(stdout, l)
  /\ UNCHANGED <<variant, pure, errpipe, pc, proc_alive, bridge, appvars>>

ChildExit ==
  /\ proc_alive
  /\ proc_alive' = FALSE
  /\ UNCHANGED <<variant, pure, errpipe, pc, stdout, bridge, appvars>>

\* ---- the child's stderr and the log_stderr thread ----

\* the child logs a line; with the pipe full its write would block
ChildLog ==
  /\ proc_alive
  /\ stderr < MaxErr
  /\ stderr' = stderr + 1
  /\ UNCHANGED <<variant, pure, pc, proc_alive, stdout, drainedBlocked, bridge, appvars>>

\* the main thread is in readline(), time.sleep() or input()
MainBlocked == pc \in {"readline", "sleep", "prompt"}

\* a drain that is done by the main thread between its blocking calls
DrainOnMainThread == pc # "exited" /\ ~MainBlocked

\* log_stderr runs on a daemon thread of its own: it can run whenever the
\* parent process lives, whatever the main thread is doing
DrainThreadRuns == pc # "exited"

\* for line in proc.stderr: print(...) takes one line out of the pipe
LogStderr ==
  /\ DrainThreadRuns
  /\ stderr > 0
  /\ stderr' = stderr - 1
  /\ drainedBlocked' = (drainedBlocked \/ MainBlocked)
  /\ UNCHANGED <<variant, pure, pc, proc_alive, stdout, bridge, appvars>>

\* ---- app.py: the user and the script runs ----

InSession == uploaded # 0 /\ session_state.current_testbed = uploaded

UserUpload ==
  /\ variant = "app" /\ pc = "app_idle"
  /\ \E n \in 0..MaxTestbeds : n # uploaded /\ uploaded' = n
  /\ event' = "none"
  /\ pc' = "app_run"
  /\ UNCHANGED <<variant, pure, errpipe, proc_alive, stdout, bridge, session_state, spawns, orphans>>

UserPrompt ==
  /\ variant = "app" /\ pc = "app_idle"
  /\ InSession
  /\ event' = "prompt"
  /\ pc' = "app_run"
  /\ UNCHANGED <<variant, pure, errpipe, proc_alive, stdout, bridge, session_state, uploaded, spawns, orphans>>

UserReset ==
  /\ variant = "app" /\ pc = "app_idle"
  /\ InSession
  /\ event' = "reset"
  /\ pc' = "app_run"
  /\ UNCHANGED <<variant, pure, errpipe, proc_alive, stdout, bridge, session_state, uploaded, spawns, orphans>>

\* every script run executes the module's top level: request_id_counter = 0

\* uploaded_file is None: st.info and return
AppNoUpload ==
  /\ pc = "app_run"
  /\ uploaded = 0
  /\ request_id' = 0
  /\ event' = "none"
  /\ pc' = "app_idle"
  /\ UNCHANGED <<variant, pure, errpipe, proc_alive, stdout, rid, op, fname, stdin, elapsed, callElapsed,
                 outcome, abandoned, discarded,
                 session_state, uploaded, spawns, orphans>>

\* a start_mcp_server that spawns without looking at the previous child
SpawnOverPrevious(registered) == FALSE

\* if "mcp_proc" in st.session_state and st.session_state.mcp_proc:
\*     terminate() and wait() before the Popen
TerminatePrevious(registered) == registered

\* a new testbed name: record it, load it, start_mcp_server up to the Popen
AppStartServer ==
  /\ pc = "app_run"
  /\ uploaded # 0 /\ session_state.current_testbed # uploaded
  /\ spawns < MaxSpawns
  /\ request_id' = 0
  /\ session_state' = [session_state EXCEPT !.current_testbed = uploaded, !.mcp_proc = TRUE]
  /\ proc_alive' = TRUE
  /\ stdin' = <<>>
  /\ stdout' = <<>>
  /\ abandoned' = {} /\ discarded' = {}
  /\ spawns' = spawns + 1
  /\ orphans' = IF proc_alive /\ ~TerminatePrevious(session_state.mcp_proc) THEN orphans + 1 ELSE orphans
  /\ event' = "none"
  /\ outcome' = NoOutcome
  /\ pc' = "start"
  /\ stderr' = 0
  /\ UNCHANGED <<variant, pure, drainedBlocked, rid, op, fname, elapsed, callElapsed, uploaded>>

\* load(uploaded_file.name) raises: current_testbed is already set
AppLoadFails ==
  /\ pc = "app_run"
  /\ uploaded # 0 /\ session_state.current_testbed # uploaded
  /\ request_id' = 0
  /\ session_state' = [session_state EXCEPT !.current_testbed = uploaded]
  /\ event' = "none"
  /\ pc' = "app_idle"
  /\ UNCHANGED <<variant, pure, errpipe, proc_alive, stdout, rid, op, fname, stdin, elapsed, callElapsed,
                 outcome, abandoned, discarded, uploaded, spawns, orphans>>

\* 'Clear Chat and Reset'
AppReset ==
  /\ pc = "app_run"
  /\ InSession /\ event = "reset"
  /\ request_id' = 0
  /\ session_state' = [session_state EXCEPT !.current_testbed = 0, !.mcp_proc = FALSE]
  /\ proc_alive' = IF session_state.mcp_proc THEN FALSE ELSE proc_alive
  /\ event' = "none"
  /\ pc' = "app_run"
  /\ UNCHANGED <<variant, pure, errpipe, stdout, rid, op, fname, stdin, elapsed, callElapsed,
                 outcome, abandoned, discarded, uploaded, spawns, orphans>>

\* a chat prompt for which the model asks for a tool: call_tool's request
AppCallTool(name) ==
  /\ pc = "app_run"
  /\ InSession /\ event = "prompt"
  /\ session_state.tools
  /\ session_state.mcp_proc
  /\ SendRequest(0, "tools/call", "call", name)

AppPromptCallTool == \E name \in ToolNames : AppCallTool(name)

\* the same without a process in the session state: mcp_send writes nothing
\* and mcp_recv raises TimeoutError at once
AppPromptCallToolNoProc ==
  /\ pc = "app_run"
  /\ InSession /\ event = "prompt"
  /\ session_state.tools
  /\ ~session_state.mcp_proc
  /\ request_id' = next_id(0)
  /\ Complete(Outcome("call", "TimeoutError", "timeout", request_id', Blank, "none"))
  /\ UNCHANGED <<variant, pure, errpipe, stdout, stdin, abandoned, discarded, uploaded, spawns, orphans>>

\* a chat prompt answered without a tool, or one that raises before call_tool
\* (st.session_state.openai_tools missing, the model's API failing)
AppPromptNoTool ==
  /\ pc = "app_run"
  /\ InSession /\ event = "prompt"
  /\ request_id' = 0
  /\ event' = "none"
  /\ \/ session_state.tools /\ pc' = "app_run"
     \/ pc' = "app_idle"
  /\ UNCHANGED <<variant, pure, errpipe, proc_alive, stdout, rid, op, fname, stdin, elapsed, callElapsed,
                 outcome, abandoned, discarded,
                 session_state, uploaded, spawns, orphans>>

\* nothing to do: the page is drawn and the script ends
AppRender ==
  /\ pc = "app_run"
  /\ InSession /\ event = "none"
  /\ request_id' = 0
  /\ pc' = "app_idle"
  /\ UNCHANGED <<variant, pure, errpipe, proc_alive, stdout, rid, op, fname, stdin, elapsed, callElapsed,
                 outcome, abandoned, discarded, appvars>>

Next ==
  \/ InitializeRequest
  \/ InitializedNotification
  \/ GetToolListSend
  \/ CallToolSend
  \/ RecvCheckPass
  \/ RecvTimeout
  \/ ReadSkip
  \/ ReadNonObject
  \/ ReadMismatch
  \/ ReadMatch
  \/ WakeUp
  \/ Tick
  \/ UserExit
  \/ LLMReply
  \/ LLMError
  \/ ChildWrite
  \/ ChildExit
  \/ UserUpload
  \/ UserPrompt
  \/ UserReset
  \/ AppNoUpload
  \/ AppStartServer
  \/ AppLoadFails
  \/ AppReset
  \/ AppPromptCallTool
  \/ AppPromptCallToolNoProc
  \/ AppPromptNoTool
  \/ AppRender

Spec == Init /\ [][Next]_vars

\* the command line agent together with its child's stderr: the stderr pipe
\* shares no variable with the request/response path
DrainInit == Init /\ variant = "cli"

DrainNext ==
  \/ InitializeRequest
  \/ InitializedNotification
  \/ GetToolListSend
  \/ CallToolSend
  \/ RecvCheckPass
  \/ RecvTimeout
  \/ ReadSkip
  \/ ReadNonObject
  \/ ReadMismatch
  \/ ReadMatch
  \/ WakeUp
  \/ Tick
  \/ UserExit
  \/ LLMReply
  \/ LLMError
  \/ ChildWrite
  \/ ChildExit
  \/ ChildLog
  \/ LogStderr

\* the operating system schedules the drain thread: readline, sleep and input
\* release the interpreter lock
DrainSpec == DrainInit /\ [][DrainNext]_vars /\ WF_vars(LogStderr)

\* the steps of the main thread inside a receive loop
Receive ==
  \/ RecvCheckPass
  \/ RecvTimeout
  \/ ReadSkip
  \/ ReadNonObject
  \/ ReadMismatch
  \/ ReadMatch
  \/ WakeUp

\* the main thread runs whenever it is not blocked, and time passes
FairSpec == Spec /\ WF_vars(Receive) /\ WF_vars(Tick)

TypeOK ==
  /\ variant \in Variants
  /\ request_id \in 0..MaxId
  /\ rid \in 0..MaxId
  /\ fname \in ToolNames \cup {"none"}
  /\ stderr \in 0..MaxErr
  /\ drainedBlocked \in BOOLEAN
  /\ Len(stdout) <= MaxQueue
  /\ Len(stdin) <= MaxWrites
  /\ elapsed \in 0..TimeoutTicks
  /\ callElapsed \in 0..TimeoutTicks

\* ---- tool_to_openai ----

\* what a member of a JSON object can be: not there, null, a value that is no
\* mapping (string, number, array), an empty or a non-empty mapping
JsonKinds == {"absent", "null", "text", "map0", "map1"}
IsMapping(k) == k \in {"map0", "map1"}

\* a tool descriptor of a tools/list result: properties and required are
\* members of inputSchema and exist only when inputSchema is a mapping
Descriptor(n, s, p, r) == [name |-> n, inputSchema |-> s, properties |-> p, required |-> r]
Descriptors ==
  {Descriptor(n, s, p, r) : n \in {"absent", "t1"}, s \in JsonKinds,
                            p \in JsonKinds, r \in {"absent", "null", "text", "list"}}
ToolDescriptors ==
  {d \in Descriptors :
     /\ d.inputSchema = "map0" => (d.properties = "absent" /\ d.required = "absent")
     /\ d.inputSchema = "map1" => (d.properties # "absent" \/ d.required # "absent")
     /\ ~IsMapping(d.inputSchema) => (d.properties = "absent" /\ d.required = "absent")}

Raised(e) == [kind |-> e, properties |-> "none", required |-> "none"]

\* d.get(key, default) on a mapping: the default only when the key is absent
DictGet(member, default) == IF member = "absent" THEN default ELSE member

\* schema = tool.get("inputSchema", {}); tool["name"]; schema.get("properties", {});
\* schema.get("required", [])
tool_to_openai(tool) ==
  LET schema == DictGet(tool.inputSchema, "map0")
  IN  IF tool.name = "absent" THEN Raised("KeyError")
      ELSE IF ~IsMapping(schema) THEN Raised("AttributeError")
      ELSE [kind |-> "return",
            properties |-> DictGet(tool.properties, "map0"),
            required |-> DictGet(tool.required, "list0")]

\* openai_tools = [tool_to_openai(t) for t in tools], one descriptor at a time
ToolToOpenai ==
  /\ ret = NoValue
  /\ ret' = <<tool_to_openai(arg)>>
  /\ UNCHANGED <<agentvars, arg, master>>

ToolInit ==
  /\ AgentInit /\ variant \in {"cli", "app"}
  /\ arg \in ToolDescriptors
  /\ ret = NoValue

ToolSpec == ToolInit /\ [][ToolToOpenai]_vars

\* ---- the codec: json.dumps in mcp_send, readline and json.loads in mcp_recv ----

\* characters: a text is a sequence of them
LF == "LF"
QUOTE == "QUOTE"
BSL == "BSL"
Digits == <<"0", "1", "2", "3", "4", "5", "6", "7", "8", "9">>
IsDigit(c) == \E i \in 1..Len(Digits) : Digits[i] = c
DigitVal(c) == (CHOOSE i \in 1..Len(Digits) : Digits[i] = c) - 1

\* JSON values as Python holds them: str, int, None, dict (members in order)
JStr(s) == [t |-> "str", s |-> s, n |-> 0, m |-> <<>>]
JInt(k) == [t |-> "int", s |-> <<>>, n |-> k, m |-> <<>>]
JNull == [t |-> "null", s |-> <<>>, n |-> 0, m |-> <<>>]
JObj(m) == [t |-> "obj", s |-> <<>>, n |-> 0, m |-> m]
Member(k, v) == [k |-> k, v |-> v]

\* a string written with a raw character for every character
EscapeNone(c) == <<c>>

\* json.dumps escapes the quote, the backslash and the line feed in a string
EscapeChar(c) ==
  IF c = LF THEN <<BSL, "n">>
  ELSE IF c \in {QUOTE, BSL} THEN <<BSL, c>>
  ELSE <<c>>

RECURSIVE EncodeChars(_)
EncodeChars(s) == IF s = <<>> THEN <<>> ELSE EscapeChar(Head(s)) \o EncodeChars(Tail(s))

EncodeStr(s) == <<QUOTE>> \o EncodeChars(s) \o <<QUOTE>>

RECURSIVE EncodeNat(_)
EncodeNat(n) ==
  IF n < Len(Digits) THEN <<Digits[n + 1]>>
  ELSE EncodeNat(n \div Len(Digits)) \o <<Digits[(n % Len(Digits)) + 1]>>

EncodeInt(n) == IF n < 0 THEN <<"-">> \o EncodeNat(0 - n) ELSE EncodeNat(n)

RECURSIVE dumps(_), EncodeMembers(_)
\* json.dumps(obj) with the default separators ', ' and ': '
dumps(v) ==
  CASE v.t = "str" -> EncodeStr(v.s)
    [] v.t = "int" -> EncodeInt(v.n)
    [] v.t = "null" -> <<"null">>
    [] v.t = "obj" -> <<"{">> \o EncodeMembers(v.m) \o <<"}">>

EncodeMembers(m) ==
  IF m = <<>> THEN <<>>
  ELSE EncodeStr(Head(m).k) \o <<":", " ">> \o dumps(Head(m).v)
         \o (IF Len(m) > 1 THEN <<",", " ">> ELSE <<>>) \o EncodeMembers(Tail(m))

\* mcp_send: what goes down the pipe for obj
mcp_send(obj) == dumps(obj) \o <<LF>>

\* readline(): the text up to and with the first line feed
RECURSIVE readline(_)
readline(t) ==
  IF t = <<>> THEN <<>>
  ELSE IF Head(t) = LF THEN <<LF>>
  ELSE <<Head(t)>> \o readline(Tail(t))

\* line.strip() is not empty
NotBlank(line) == \E i \in 1..Len(line) : line[i] \notin {" ", LF}

\* the decoder's result: a value and the position after it, or a failure
Parsed(v, p) == [ok |-> TRUE, v |-> v, pos |-> p]
ParseFail == [ok |-> FALSE, v |-> JNull, pos |-> 0]
CharsFail == [ok |-> FALSE, v |-> <<>>, pos |-> 0]

RECURSIVE SkipWs(_, _)
SkipWs(t, p) == IF p <= Len(t) /\ t[p] \in {" ", LF} THEN SkipWs(t, p + 1) ELSE p

\* the characters of a string, from the position after the opening quote
RECURSIVE ParseChars(_, _, _)
ParseChars(t, p, acc) ==
  IF p > Len(t) THEN CharsFail
  ELSE IF t[p] = QUOTE THEN [ok |-> TRUE, v |-> acc, pos |-> p + 1]
  ELSE IF t[p] = LF THEN CharsFail
  ELSE IF t[p] = BSL
       THEN IF p + 1 > Len(t) THEN CharsFail
            ELSE IF t[p + 1] = "n" THEN ParseChars(t, p + 2, Append(acc, LF))
            ELSE IF t[p + 1] \in {QUOTE, BSL} THEN ParseChars(t, p + 2, Append(acc, t[p + 1]))
            ELSE CharsFail
       ELSE ParseChars(t, p + 1, Append(acc, t[p]))

RECURSIVE ParseNat(_, _, _)
ParseNat(t, p, acc) ==
  IF p <= Len(t) /\ IsDigit(t[p])
  THEN ParseNat(t, p + 1, acc * Len(Digits) + DigitVal(t[p]))
  ELSE Parsed(JInt(acc), p)

RECURSIVE ParseValue(_, _), ParseMembers(_, _, _)
ParseValue(t, p0) ==
  LET p == SkipWs(t, p0)
  IN  IF p > Len(t) THEN ParseFail
      ELSE IF t[p] = QUOTE
           THEN LET r == ParseChars(t, p + 1, <<>>)
                IN  IF r.ok THEN Parsed(JStr(r.v), r.pos) ELSE ParseFail
      ELSE IF IsDigit(t[p]) THEN ParseNat(t, p, 0)
      ELSE IF t[p] = "-"
           THEN IF p + 1 <= Len(t) /\ IsDigit(t[p + 1])
                THEN LET r == ParseNat(t, p + 1, 0) IN Parsed(JInt(0 - r.v.n), r.pos)
                ELSE ParseFail
      ELSE IF t[p] = "null" THEN Parsed(JNull, p + 1)
      ELSE IF t[p] = "{"
           THEN IF SkipWs(t, p + 1) <= Len(t) /\ t[SkipWs(t, p + 1)] = "}"
                THEN Parsed(JObj(<<>>), SkipWs(t, p + 1) + 1)
                ELSE ParseMembers(t, p + 1, <<>>)
      ELSE ParseFail

\* "key": value, then a comma and the next member or the closing brace
ParseMembers(t, p0, acc) ==
  LET p == SkipWs(t, p0)
  IN  IF p > Len(t) \/ t[p] # QUOTE THEN ParseFail
      ELSE LET k == ParseChars(t, p + 1, <<>>)
           IN  IF ~k.ok THEN ParseFail
               ELSE LET c == SkipWs(t, k.pos)
                    IN  IF c > Len(t) \/ t[c] # ":" THEN ParseFail
                        ELSE LET v == ParseValue(t, c + 1)
                             IN  IF ~v.ok THEN ParseFail
                                 ELSE LET e == SkipWs(t, v.pos)
                                          m == Append(acc, Member(k.v, v.v))
                                      IN  IF e > Len(t) THEN ParseFail
                                          ELSE IF t[e] = "," THEN ParseMembers(t, e + 1, m)
                                          ELSE IF t[e] = "}" THEN Parsed(JObj(m), e + 1)
                                          ELSE ParseFail

\* json.loads(line): one value and nothing but white space after it
loads(line) ==
  LET r == ParseValue(line, 1)
  IN  IF r.ok /\ SkipWs(line, r.pos) > Len(line)
      THEN [kind |-> "return", v |-> r.v]
      ELSE [kind |-> "JSONDecodeError", v |-> JNull]

\* one pass of mcp_recv over what is in the pipe: a blank line is skipped, the
\* decoder's result is returned, a decode error is skipped
mcp_recv(pipe) ==
  LET line == readline(pipe)
  IN  IF ~NotBlank(line) THEN [kind |-> "blank", v |-> JNull]
      ELSE loads(line)

\* the strings that names, messages and texts are drawn from
Strings ==
  {<<>>, <<"a">>, <<LF>>, <<QUOTE>>, <<BSL>>, <<BSL, "n">>, <<"a", QUOTE, "{">>, <<",", " ", "}">>}

Version == Member(<<"jsonrpc">>, JStr(<<"2", ".", "0">>))
Ids == {1, MaxId + MaxId}

\* the four kinds of envelope
RequestEnvelopes ==
  {JObj(<<Version, Member(<<"id">>, JInt(i)), Member(<<"method">>, JStr(<<"tools/call">>)),
          Member(<<"params">>, JObj(<<Member(<<"name">>, JStr(n)),
                                     Member(<<"arguments">>, JObj(<<Member(<<"cidr">>, JStr(a))>>))>>))>>) :
     i \in Ids, n \in Strings, a \in {<<>>, <<"a", LF, QUOTE>>}}
NotificationEnvelopes ==
  {JObj(<<Version, Member(<<"method">>, JStr(n))>>) : n \in Strings}
ResponseEnvelopes ==
  {JObj(<<Version, Member(<<"id">>, JInt(i)), Member(<<"result">>, r)>>) :
     i \in Ids, r \in {JNull, JObj(<<>>)} \cup {JStr(x) : x \in Strings}}
ErrorEnvelopes ==
  {JObj(<<Version, Member(<<"id">>, JInt(i)),
          Member(<<"error">>, JObj(<<Member(<<"code">>, JInt(c)), Member(<<"message">>, JStr(x))>>))>>) :
     i \in Ids, c \in {0, 0 - 32601}, x \in Strings}
AllEnvelopes == RequestEnvelopes \cup NotificationEnvelopes \cup ResponseEnvelopes \cup ErrorEnvelopes

\* an envelope goes through mcp_send and, from the pipe, through mcp_recv
RoundTrip ==
  /\ ret = NoValue
  /\ ret' = <<mcp_recv(mcp_send(arg))>>
  /\ UNCHANGED <<agentvars, arg, master>>

CodecInit ==
  /\ AgentInit /\ variant = "cli"
  /\ arg \in AllEnvelopes
  /\ ret = NoValue

CodecSpec == CodecInit /\ [][RoundTrip]_vars

\* ---- subnet_calculator ----

\* the number of addresses: 2^32 in IPv4, 2^AddrBits here
AddrSpace == 2^AddrBits

\* an address or a network that could not be built
NoNet == [address |-> 0 - 1, prefixlen |-> 0 - 1]

\* ipaddr.IPv4Address(n) raises AddressValueError outside 0 .. 2^32 - 1
AddressOk(n) == n >= 0 /\ n < AddrSpace

\* ipaddr.IPv4Network(cidr, strict=False): the host bits are masked away
IPv4Network(a, p) == [address |-> (a \div 2^(AddrBits - p)) * 2^(AddrBits - p), prefixlen |-> p]
num_addresses(net) == 2^(AddrBits - net.prefixlen)
broadcast_address(net) == net.address + num_addresses(net) - 1

\* ipaddr.IPv4Network(f"{ipaddr.IPv4Address(n)}/{prefixlen}")
Neighbour(n, p) == IF AddressOk(n) THEN IPv4Network(n, p) ELSE NoNet

\* [str(ip) for i, ip in enumerate(network)
\*  if ip not in (network_address, broadcast_address) and i < MAX_HOST_PREVIEW + 1]
RECURSIVE usable_hosts(_, _)
usable_hosts(net, i) ==
  IF i >= num_addresses(net) \/ i >= MAX_HOST_PREVIEW + 1 THEN <<>>
  ELSE (IF net.address + i \notin {net.address, broadcast_address(net)}
        THEN <<net.address + i>> ELSE <<>>) \o usable_hosts(net, i + 1)

\* None in place of an address
NoAddress == 0 - 1

\* str(list(network)[1]) if network.num_addresses >= 2 else None
first_usable(net) == IF num_addresses(net) >= 2 THEN net.address + 1 ELSE NoAddress

\* str(list(network)[-2]) if network.num_addresses >= 2 else None
last_usable(net) == IF num_addresses(net) >= 2 THEN net.address + num_addresses(net) - 2 ELSE NoAddress

SubnetResult(k, net, prev, next, hosts) ==
  [kind |-> k, network |-> net, previous_subnet |-> prev, next_subnet |-> next,
   num_addresses |-> IF k = "return" THEN num_addresses(net) ELSE 0,
   usable_hosts_count |-> IF k = "return" THEN (IF num_addresses(net) > 2 THEN num_addresses(net) - 2 ELSE 0) ELSE 0,
   usable_hosts_preview |-> hosts,
   first_usable |-> IF k = "return" THEN first_usable(net) ELSE NoAddress,
   last_usable |-> IF k = "return" THEN last_usable(net) ELSE NoAddress]

\* the body of the try, and the except clause that returns {"error": str(e)}
subnet_calculator(cidr) ==
  LET network == IPv4Network(cidr.address, cidr.prefixlen)
      size == num_addresses(network)
      base == network.address
      prev_sub == Neighbour(base - size, network.prefixlen)
      next_sub == Neighbour(base + size, network.prefixlen)
  IN  IF prev_sub = NoNet \/ next_sub = NoNet
      THEN SubnetResult("error", NoNet, NoNet, NoNet, <<>>)
      ELSE SubnetResult("return", network, prev_sub, next_sub, usable_hosts(network, 0))

\* every valid CIDR: any address with any prefix length
ValidCidrs == [address : 0..(AddrSpace - 1), prefixlen : 0..AddrBits]

SubnetCalculator ==
  /\ ret = NoValue
  /\ ret' = <<subnet_calculator(arg)>>
  /\ UNCHANGED <<agentvars, arg, master>>

SubnetInit ==
  /\ AgentInit /\ variant = "cli"
  /\ arg \in ValidCidrs
  /\ ret = NoValue

SubnetSpec == SubnetInit /\ [][SubnetCalculator]_vars

\* ---- src/02_pyATS/server.py: run_show_command_async ----

\* a command is a sequence of pieces of text: the word show in two spellings,
\* a blank, some other letters, the pipe sign and the word include
Pieces == {"show", "SHOW", " ", "x", "|", "include"}
Commands == UNION {[1..n -> Pieces] : n \in 0..MaxCmdLen}

\* str.lower()
LowerPiece(c) == IF c = "SHOW" THEN "show" ELSE c
lower(cmd) == [i \in 1..Len(cmd) |-> LowerPiece(cmd[i])]

\* str.strip()
RECURSIVE lstrip(_)
lstrip(cmd) == IF cmd # <<>> /\ Head(cmd) = " " THEN lstrip(Tail(cmd)) ELSE cmd
RECURSIVE rstrip(_)
rstrip(cmd) ==
  IF cmd # <<>> /\ cmd[Len(cmd)] = " " THEN rstrip(SubSeq(cmd, 1, Len(cmd) - 1)) ELSE cmd
strip(cmd) == rstrip(lstrip(cmd))

\* str.startswith("show")
startswith_show(cmd) == cmd # <<>> /\ Head(cmd) = "show"

\* str.split(): the runs of text between blanks
RECURSIVE SplitFrom(_, _, _)
SplitFrom(cmd, cur, acc) ==
  IF cmd = <<>> THEN (IF cur = <<>> THEN acc ELSE Append(acc, cur))
  ELSE IF Head(cmd) = " "
       THEN SplitFrom(Tail(cmd), <<>>, IF cur = <<>> THEN acc ELSE Append(acc, cur))
       ELSE SplitFrom(Tail(cmd), Append(cur, Head(cmd)), acc)
split(cmd) == SplitFrom(cmd, <<>>, <<>>)

disallowed_modifiers ==
  {<<"|">>, <<"include">>, <<"exclude">>, <<"begin">>, <<"redirect">>, <<">">>, <<"<">>,
   <<"config">>, <<"copy">>, <<"delete">>, <<"erase">>, <<"reload">>, <<"write">>}

\* the validation at the top of run_show_command_async
PassesValidation(command) ==
  LET command_lower == strip(lower(command))
  IN  /\ startswith_show(command_lower)
      /\ \A k \in 1..Len(split(command_lower)) : split(command_lower)[k] \notin disallowed_modifiers

\* _execute_show_command: _get_device raises for a device that is not in the
\* testbed; otherwise it connects and the command goes to device.parse and,
\* when the parser fails, to device.execute
ShowResult(s, c, r) == [status |-> s, connected |-> c, reached |-> r]
execute_show_command(device_known, parses, command) ==
  IF ~device_known THEN ShowResult("error", FALSE, FALSE)
  ELSE IF parses THEN ShowResult("completed", TRUE, TRUE)
  ELSE ShowResult("completed_raw", TRUE, TRUE)

run_show_command_async(a) ==
  IF PassesValidation(a.command)
  THEN execute_show_command(a.device_known, a.parses, a.command)
  ELSE ShowResult("error", FALSE, FALSE)

RunShowCommand ==
  /\ ret = NoValue
  /\ ret' = <<run_show_command_async(arg)>>
  /\ UNCHANGED <<agentvars, arg, master>>

ShowInit ==
  /\ AgentInit /\ variant = "app"
  /\ arg \in [device_known : BOOLEAN, parses : BOOLEAN, command : Commands]
  /\ ret = NoValue

ShowSpec == ShowInit /\ [][RunShowCommand]_vars

\* ---- src/02_pyATS/server.py: the six tools and their helpers ----

\* what a tool hands back: the status of its result ("raise": an exception
\* leaves the function), whether it connected to the device, whether the
\* device is still connected, whether a command or configuration was sent
ToolResult(s, d, c, r) == [status |-> s, did_connect |-> d, left_connected |-> c, reached |-> r]

\* an except clause that lets the exception pass
ExceptReraise(r) == r

\* except Exception as e: return {"status": "error", "error": ...}
ExceptToError(r) == IF r.status = "raise" THEN [r EXCEPT !.status = "error"] ELSE r

\* device.disconnect()
DeviceDisconnect(connected) == FALSE

\* a finally clause that leaves the device as it is
disconnect_device_skipped(connected) == connected

\* _disconnect_device(device): if device and device.is_connected(): device.disconnect()
disconnect_device(connected) == IF connected THEN DeviceDisconnect(connected) ELSE connected

\* _get_device(device_name): raises for an unknown device and when connect fails
get_device(env) == env.device_known /\ env.connect_ok

\* try: device = _get_device(...); <body> except Exception: error; finally: _disconnect_device(device)
\* body is the status the body ends with once the device is there
WithDevice(env, body, reached) ==
  IF get_device(env)
  THEN ExceptToError(ToolResult(body, TRUE, disconnect_device(TRUE), reached))
  ELSE ExceptToError(ToolResult("raise", FALSE, disconnect_device(FALSE), FALSE))

\* device.parse(command), with device.execute(command) when the parser raises
ParseOrExecute(env) ==
  IF env.parse_ok THEN "completed" ELSE IF env.execute_ok THEN "completed_raw" ELSE "raise"

execute_show_command_on(env) == WithDevice(env, ParseOrExecute(env), TRUE)
execute_ping(env) == WithDevice(env, ParseOrExecute(env), TRUE)

\* device.enable(); device.execute("show run brief")
execute_learn_config(env) ==
  WithDevice(env, IF env.execute_ok THEN "completed_raw" ELSE "raise", TRUE)

\* device.execute("show logging last 250")
execute_learn_logging(env) ==
  WithDevice(env, IF env.execute_ok THEN "completed_raw" ELSE "raise", TRUE)

\* cleaned_config empty: error; else device.configure(cleaned_config)
execute_config(env) ==
  IF env.empty THEN WithDevice(env, "error", FALSE)
  ELSE WithDevice(env, IF env.configure_ok THEN "success" ELSE "raise", TRUE)

\* _execute_linux_command: its own lookup, connect, parse or execute,
\* device.disconnect() in the body and again in the finally clause
execute_linux_command(env) ==
  IF ~env.device_known THEN ToolResult("error", FALSE, FALSE, FALSE)
  ELSE IF ~env.connect_ok THEN ExceptToError(ToolResult("raise", FALSE, FALSE, FALSE))
  ELSE IF env.parse_ok \/ env.execute_ok
       THEN ToolResult("completed", TRUE, DeviceDisconnect(TRUE), TRUE)
       ELSE ExceptToError(ToolResult("raise", TRUE, DeviceDisconnect(TRUE), TRUE))

Rejected == ToolResult("error", FALSE, FALSE, FALSE)

\* the *_async functions: validation, then the helper in the executor, all
\* inside try / except Exception
run_show_command(env) == IF env.valid THEN ExceptToError(execute_show_command_on(env)) ELSE Rejected
apply_device_configuration(env) == IF env.valid THEN ExceptToError(execute_config(env)) ELSE Rejected
run_ping_command(env) == IF env.valid THEN ExceptToError(execute_ping(env)) ELSE Rejected

ToolNamesPyats ==
  {"pyats_run_show_command", "pyats_configure_device", "pyats_show_running_config",
   "pyats_show_logging", "pyats_ping_from_network_device", "pyats_run_linux_command"}

AsyncResult(env) ==
  CASE env.tool = "pyats_run_show_command" -> run_show_command(env)
    [] env.tool = "pyats_configure_device" -> apply_device_configuration(env)
    [] env.tool = "pyats_show_running_config" -> ExceptToError(execute_learn_config(env))
    [] env.tool = "pyats_show_logging" -> ExceptToError(execute_learn_logging(env))
    [] env.tool = "pyats_ping_from_network_device" -> run_ping_command(env)
    [] env.tool = "pyats_run_linux_command" -> ExceptToError(execute_linux_command(env))

\* json.dumps(result, indent=2) raises TypeError for an output it cannot write
DumpResult(env, r) ==
  IF r.status \in {"completed", "completed_raw", "success"} /\ ~env.serializable
  THEN [r EXCEPT !.status = "raise"]
  ELSE r

\* the pyats_* tool: try: return json.dumps(await ...) except Exception: error
pyats_tool(env) == ExceptToError(DumpResult(env, AsyncResult(env)))

\* what the invocation meets: the text passes the tool's validation, the
\* configuration is empty, the device is in the testbed, connect, parse,
\* execute and configure succeed, the output can be written as JSON
Envs ==
  [tool : ToolNamesPyats, valid : BOOLEAN, empty : BOOLEAN, device_known : BOOLEAN,
   connect_ok : BOOLEAN, parse_ok : BOOLEAN, execute_ok : BOOLEAN,
   configure_ok : BOOLEAN, serializable : BOOLEAN]

PyatsTool ==
  /\ ret = NoValue
  /\ ret' = <<pyats_tool(arg)>>
  /\ UNCHANGED <<agentvars, arg, master>>

PyatsInit ==
  /\ AgentInit /\ variant = "app"
  /\ arg \in Envs
  /\ ret = NoValue

PyatsSpec == PyatsInit /\ [][PyatsTool]_vars

\* ---- src/02_pyATS/server.py: apply_device_configuration_async on a text ----

MaxCfgLen == 6

CfgLetters == {"e", "E", "r", "a", "s", " "}

CfgTexts == UNION {[1..n -> CfgLetters] : n \in 0..MaxCfgLen}

\* a lower() that changes nothing
LowerLetterNone(c) == c

\* str.lower() on one letter
LowerLetter(c) == IF c = "E" THEN "e" ELSE c

lower_text(t) == [i \in 1..Len(t) |-> LowerLetter(t[i])]

\* pat in t
Contains(t, pat) ==
  \E i \in 1..(Len(t) - Len(pat) + 1) : SubSeq(t, i, i + Len(pat) - 1) = pat

Erase == <<"e", "r", "a", "s", "e">>

WriteErase == <<"w", "r", "i", "t", "e", " ">> \o Erase

\* "erase" in config_commands.lower() or "write erase" in config_commands.lower()
DangerousCommand(t) == Contains(lower_text(t), Erase) \/ Contains(lower_text(t), WriteErase)

\* cleaned_config = textwrap.dedent(config_commands.strip()); if not cleaned_config
EmptyConfig(t) == \A i \in 1..Len(t) : t[i] = " "

ConfigEnv(a) ==
  [tool |-> "pyats_configure_device", valid |-> ~DangerousCommand(a.config),
   empty |-> EmptyConfig(a.config), device_known |-> a.device_known,
   connect_ok |-> TRUE, parse_ok |-> TRUE, execute_ok |-> TRUE,
   configure_ok |-> a.configure_ok, serializable |-> TRUE]

apply_device_configuration_async(a) == apply_device_configuration(ConfigEnv(a))

ApplyConfiguration ==
  /\ ret = NoValue
  /\ ret' = <<apply_device_configuration_async(arg)>>
  /\ UNCHANGED <<agentvars, arg, master>>

ConfigInit ==
  /\ AgentInit /\ variant = "app"
  /\ arg \in [config : CfgTexts, device_known : BOOLEAN, configure_ok : BOOLEAN]
  /\ ret = NoValue

ConfigSpec == ConfigInit /\ [][ApplyConfiguration]_vars

\* ---- src/02_pyATS/master_agent.py ----

\* time.sleep(5)
SleepSeconds == 5

MasterStep(m) == master' = m /\ UNCHANGED <<agentvars, arg, ret>>

\* server_thread.start(): the thread exists, the main thread goes on to sleep
ThreadStart ==
  /\ master.main = "init"
  /\ MasterStep([master EXCEPT !.main = "sleep", !.server = "created"])

\* the server thread is scheduled and enters RouterAgent()
ServerRuns ==
  /\ master.server = "created"
  /\ MasterStep([master EXCEPT !.server = "constructor"])

\* router_agent = RouterAgent(): the constructor returns and the global is set
RouterCreated ==
  /\ master.server = "constructor"
  /\ MasterStep([master EXCEPT !.server = "start", !.router_agent = TRUE])

\* RouterAgent() raises: the thread ends and router_agent stays None
RouterFails ==
  /\ master.server = "constructor"
  /\ MasterStep([master EXCEPT !.server = "raised"])

\* router_agent.start()
RouterStarted ==
  /\ master.server = "start"
  /\ MasterStep([master EXCEPT !.server = "running"])

\* one second of time.sleep(5) passes
SleepTick ==
  /\ master.main = "sleep" /\ master.slept < SleepSeconds
  /\ MasterStep([master EXCEPT !.slept = master.slept + 1])

\* time.sleep(5) returns and register_agents() is called
SleepReturns ==
  /\ master.main = "sleep" /\ master.slept = SleepSeconds
  /\ MasterStep([master EXCEPT !.main = "register_summarizer"])

\* router_agent.register_agent(name, ...): AttributeError when router_agent is None
register_agent(name, after) ==
  IF master.router_agent
  THEN MasterStep([master EXCEPT !.registry = master.registry \cup {name}, !.main = after])
  ELSE MasterStep([master EXCEPT !.main = "crashed"])

RegisterSummarizer == master.main = "register_summarizer" /\ register_agent("summarizer", "register_qa")

RegisterQa == master.main = "register_qa" /\ register_agent("qa", "ready")

MaxCalls == 2

Tasks == {"summarize", "qa", "translate"}

TaskTexts == {"", "a", "b"}

\* router_agent.call_agent(name, payload): what the named agent makes of the payload
call_agent(name, payload) == [agent |-> name, payload |-> payload]

\* delegate_task(task, text), called by the importer of the module
delegate_task(task, text) ==
  IF ~master.router_agent THEN [agent |-> "Exception", payload |-> text]
  ELSE IF task = "summarize" THEN call_agent("summarizer", text)
  ELSE IF task = "qa" THEN call_agent("qa", text)
  ELSE [agent |-> "Unknown task", payload |-> ""]

DelegateTask ==
  /\ master.main = "ready"
  /\ Len(master.results) < MaxCalls
  /\ \E task \in Tasks, text \in TaskTexts :
       MasterStep([master EXCEPT !.results = Append(master.results, delegate_task(task, text))])

MasterNext ==
  \/ ThreadStart
  \/ ServerRuns
  \/ RouterCreated
  \/ RouterFails
  \/ RouterStarted
  \/ SleepTick
  \/ SleepReturns
  \/ RegisterSummarizer
  \/ RegisterQa
  \/ DelegateTask

MasterInit == AgentInit /\ variant = "app" /\ arg = NoValue /\ ret = NoValue

MasterSpec == MasterInit /\ [][MasterNext]_vars

\* ---- the properties ----

CliAgents == {"cli", "legacy"}

\* the messages on stdin that carry an id, in write order
Requests == SelectSeq(stdin, LAMBDA m : m.id # NoId)

\* the method a waiting function wrote
MethodOf(o) == IF o = "list" THEN "tools/list" ELSE "tools/call"

\* C1: whatever get_tool_list, call_tool or call_subnet_calculator hands back
\* comes from an envelope whose id is the id written in the request of that
\* invocation, whatever was read before it.
C1_ReturnedFromMatchingId ==
  (outcome.kind = "return" /\ outcome.op \in {"list", "call"}) =>
    /\ outcome.env.kind = "obj"
    /\ outcome.env.id = outcome.rid
    /\ outcome.payload = ResultOf(outcome.env)
    /\ \E k \in 1..Len(stdin) : stdin[k] = Msg(MethodOf(outcome.op), outcome.rid)

\* get_tool_list returned after the reply to initialize was read and skipped
C1_Witness ==
  /\ outcome.kind = "return" /\ outcome.op = "list"
  /\ outcome.env.id = outcome.rid
  /\ Unawaited \cap discarded # {}

\* C2: nothing is written after the initialize request before the reply to
\* initialize has been read from the child's stdout.
C2_HandshakeOrder ==
  \A k \in 1..Len(stdin) :
    (stdin[k].method = "initialize" /\ k < Len(stdin)) => stdin[k].id \in discarded

\* C3: every wait of get_tool_list / call_tool ends, also when the child stays
\* alive and writes nothing more.
C3_WaitEnds == (<>[][~ChildWrite]_vars) => (Waiting ~> ~Waiting)

\* C4: a wait ends (with TimeoutError when the awaited id never arrives) also
\* when the child keeps writing lines.
C4_WaitEndsUnderChatter == ([]<><<ChildWrite>>_vars) => (Waiting ~> ~Waiting)

\* C5: no two requests written to the same child carry the same id.
C5_UniqueIds ==
  \A j, k \in 1..Len(Requests) : j # k => Requests[j].id # Requests[k].id

\* C6: in a command line agent the ids on stdin start at 1 and strictly
\* increase in write order.
C6_IdsIncrease ==
  variant \in CliAgents =>
    /\ Len(Requests) > 0 => Requests[1].id = 1
    /\ \A k \in 1..Len(Requests) - 1 : Requests[k + 1].id > Requests[k].id

\* initialize and at least two more requests are on the wire
C6_Witness == variant \in CliAgents /\ Len(Requests) >= 3

\* C7: a reply read while the wait is for another id is kept unless its call
\* was abandoned: it is never dropped.
C7_OutOfOrderReplyKept == discarded \subseteq abandoned

\* a call_tool that returned got the envelope of its own id, not of an abandoned one
NoStaleResult ==
  (variant \in CliAgents /\ outcome.kind = "return" /\ outcome.op = "call") =>
    (outcome.env.id = outcome.rid /\ outcome.env.id \notin abandoned)

\* a TimeoutError of call_tool is caught in the REPL; nothing else changes
TimeoutKeepsChild ==
  (variant \in CliAgents /\ op = "call" /\ RecvTimeout) =>
    (proc_alive' = proc_alive /\ stdin' = stdin /\ stdout' = stdout /\ pc' = "prompt")

\* C8: in the command line agents the reply to a timed out call_tool is never
\* handed to a later invocation, which gets the reply to its own id, and a
\* timeout leaves the child and its pipes as they are.
C8_LateReplyDiscarded == [][TimeoutKeepsChild]_vars /\ []NoStaleResult

\* a call timed out, its late reply was read and skipped, a later call returned
C8_Witness ==
  /\ variant \in CliAgents
  /\ abandoned \cap discarded # {}
  /\ outcome.kind = "return" /\ outcome.op = "call"
  /\ outcome.rid \notin abandoned /\ outcome.env.id = outcome.rid
  /\ proc_alive

\* C9: when the envelope with the awaited id has an error member, call_tool
\* raises with that payload and returns nothing.
C9_ErrorRaised ==
  (outcome.op = "call" /\ outcome.env.kind = "obj" /\ outcome.env.error # "none") =>
    /\ outcome.kind = "RuntimeError"
    /\ outcome.cause = "remote"
    /\ outcome.payload = outcome.env.error

\* the awaited envelope had both an error and a result
C9_Witness ==
  /\ outcome.op = "call" /\ outcome.env.kind = "obj"
  /\ outcome.env.error # "none" /\ outcome.env.result # "none"
  /\ outcome.kind = "RuntimeError"

\* C10: a timed out wait is never reported through the exception kind that
\* reports a remote ErrorResponse.
C10_DistinctKinds ==
  \A l \in Envelopes :
    (l.error # "none" /\ outcome.cause = "timeout") =>
      outcome.kind # CallResult(l, outcome.rid).kind

\* C11: an ErrorResponse with the id of the tools/list request reaches the
\* caller of get_tool_list as an error, never as a returned tool list.
C11_ListErrorRaised ==
  (outcome.op = "list" /\ outcome.env.kind = "obj" /\ outcome.env.error # "none") =>
    outcome.kind # "return"

\* the names that are in no tool list the child can return
UnknownTools == ToolNames \ UNION {ToolsIn(p) : p \in {"empty", "r1"}}

\* C12: call_tool with a name that discovery did not return fails at once with
\* an unknown-tool error: nothing is written and no id is allocated.
C12_UnknownToolRejected ==
  [][\A name \in UnknownTools :
       ((CallTool(name) \/ AppCallTool(name)) /\ fname' = name) =>
          (stdin' = stdin /\ request_id' = request_id /\ outcome'.kind = "UnknownToolError")]_vars

\* the child has exited and everything it wrote has been read
AtEOF == ~proc_alive /\ stdout = <<>>

\* C13: once the child has exited, the read that meets the end of its stdout
\* ends the wait with a transport error, which is not the timeout error.
C13_ExitedChildFailsFast ==
  [][(AtEOF /\ pc = "readline" /\ pc' # "readline") =>
        (~Waiting' /\ outcome'.cause = "pipe" /\ outcome'.kind # TimeoutKind(variant))]_vars

\* C14: a transport failure is final: the operation that met it is the last
\* one of the session, the REPL is left and the child handle is given up.
C14_TransportFailureFinal ==
  outcome.cause = "pipe" =>
    IF variant = "app" THEN ~session_state.mcp_proc ELSE pc = "exited"

\* C15: in the command line agents, however react_agent ends (exit at the
\* prompt, an exception that leaves it, a failed handshake or discovery), the
\* parent has terminated the child and waited for it when it exits.
C15_ChildReaped == (variant \in CliAgents /\ pc = "exited") => ~proc_alive

\* react_agent was left by the exception of a failed discovery
C15_Witness ==
  /\ variant \in CliAgents /\ pc = "exited"
  /\ outcome.op = "list" /\ outcome.kind \in {"TimeoutError", "AttributeError"}
  /\ abandoned # {} \/ outcome.cause = "nonobject"

\* C16: a line that is not an envelope (text json.loads rejects, or JSON that
\* is not an object) is read and dropped: the wait goes on and the caller
\* sees nothing of it.
C16_UndecodableSkipped ==
  [][(pc = "readline" /\ stdout # <<>> /\ Head(stdout).kind \in {"garbage", "scalar"}
        /\ stdout' # stdout) =>
       (Waiting' /\ outcome' = outcome)]_vars

\* the reply to the initialize request of this child has been read
InitializeAnswered == Unawaited # {} /\ Unawaited \subseteq discarded

\* C17: get_tool_list or call_tool entered before the reply to initialize has
\* been read fails with a lifecycle error and writes nothing.
C17_ToolRequestNeedsHandshake ==
  [][((GetToolListSend \/ CallToolSend \/ AppPromptCallTool) /\ ~InitializeAnswered) =>
        (stdin' = stdin /\ outcome'.kind = "LifecycleError")]_vars

\* C18: the initialize request is the first message written to a child and is
\* written to it once only; stdin holds the messages of the current child.
C18_InitializeOnceAndFirst ==
  stdin # <<>> =>
    /\ stdin[1].method = "initialize"
    /\ \A k \in 2..Len(stdin) : stdin[k].method # "initialize"

\* app.py has started a second child and gone through handshake and discovery
\* with it
C18_Witness ==
  /\ variant = "app" /\ spawns = 2
  /\ Len(stdin) >= 3
  /\ stdin[3].method = "tools/list"

\* every notifications/initialized on the wire is without an id
NotificationsHaveNoId ==
  \A k \in 1..Len(stdin) :
    stdin[k].method = "notifications/initialized" => stdin[k].id = NoId

\* a wait is always for the id of a tools/list or tools/call request on the wire
WaitIsForRequest ==
  Waiting =>
    /\ rid # NoId
    /\ \E k \in 1..Len(stdin) :
         stdin[k].id = rid /\ stdin[k].method \in {"tools/list", "tools/call"}

\* writing the notification does not enter a receive loop
NotifyStartsNoWait == InitializedNotification => (~Waiting' /\ rid' = NoId)

\* C19: notifications/initialized is written without an id and no wait is
\* started for it; the waits that follow are for the ids of their own requests.
C19_NotificationNotAwaited ==
  [][NotifyStartsNoWait]_vars /\ [](NotificationsHaveNoId /\ WaitIsForRequest)

\* the request written right after the notification got its own response
C19_Witness ==
  /\ Len(stdin) >= 3
  /\ stdin[2] = Msg("notifications/initialized", NoId)
  /\ outcome.kind = "return"
  /\ outcome.rid = stdin[3].id /\ outcome.env.id = stdin[3].id

\* C20: log_stderr takes lines out of the child's stderr pipe whatever the
\* main thread is doing, so a full pipe does not stay full while the parent
\* runs.
C20_StderrDrained ==
  (stderr = MaxErr /\ pc # "exited") ~> (stderr < MaxErr \/ pc = "exited")

\* a line was consumed while the main thread was blocked, and the main thread
\* is inside readline() with the pipe emptied
C20_Witness == drainedBlocked /\ pc = "readline" /\ stdout = <<>> /\ proc_alive /\ stderr = 0

\* a bridge operation ends with an exception
BridgeError ==
  /\ outcome' # outcome
  /\ outcome'.op \in {"init", "list", "call"}
  /\ outcome'.kind \notin {"none", "return"}

\* C21: an error of the bridge (in handshake, discovery or a tool call) is
\* caught inside the agent loop: the loop is not left and takes the next input.
C21_ErrorsStayInLoop == [][BridgeError => pc' # "exited"]_vars

\* inputSchema, properties or required is absent, null or not a mapping
\* (required: not a list)
MalformedSchema(d) ==
  \/ ~IsMapping(d.inputSchema)
  \/ ~IsMapping(d.properties)
  \/ d.required # "list"

\* C22: for a named descriptor whose inputSchema, properties or required is
\* missing or malformed, tool_to_openai returns, and where inputSchema or
\* properties is the bad one the properties it returns are an empty mapping.
C22_SchemaDegradesGracefully ==
  (ret # NoValue /\ arg.name # "absent" /\ MalformedSchema(arg)) =>
     /\ ret[1].kind = "return"
     /\ (~IsMapping(arg.inputSchema) \/ ~IsMapping(arg.properties)) => ret[1].properties = "map0"

\* C23: a blank line (empty or only white space) is taken from the child's
\* stdout and dropped: the wait it was read in goes on for the same id and no
\* operation ends because of it.
C23_BlankLinesSkipped ==
  [][(pc = "readline" /\ stdout # <<>> /\ Head(stdout) = Blank /\ stdout' = Tail(stdout)) =>
       (Waiting' /\ outcome' = outcome /\ rid' = rid /\ op' = op)]_vars

\* the command line agent sleeps after a blank line of a child that runs
C23_Witness == variant \in CliAgents /\ pc = "sleep" /\ proc_alive /\ stdout = <<>>

\* C24: an envelope of any of the four kinds that is written by mcp_send and
\* read back by mcp_recv comes out equal to the envelope that went in.
C24_CodecRoundTrip == ret # NoValue => ret[1] = [kind |-> "return", v |-> arg]

\* an error envelope with a negative code and a message that holds a quote
\* or a line feed has gone through the codec
C24_Witness ==
  /\ ret # NoValue
  /\ arg \in ErrorEnvelopes
  /\ ret[1].v.m[3].v.m[1].v.n < 0
  /\ ret[1].v.m[3].v.m[2].v.s \in {<<LF>>, <<QUOTE>>}

\* C25: for every valid CIDR subnet_calculator returns a result, not an error,
\* with the previous subnet at base - size and the next one at base + size,
\* both with the prefix length of the input.
C25_NeighbourSubnets ==
  ret # NoValue =>
    LET net == IPv4Network(arg.address, arg.prefixlen)
    IN  /\ ret[1].kind = "return"
        /\ ret[1].network = net
        /\ ret[1].previous_subnet = [address |-> net.address - num_addresses(net), prefixlen |-> arg.prefixlen]
        /\ ret[1].next_subnet = [address |-> net.address + num_addresses(net), prefixlen |-> arg.prefixlen]

\* the usable hosts of a network: what lies between its network address and
\* its broadcast address
Usable(net) == {a \in 0..(AddrSpace - 1) : net.address < a /\ a < broadcast_address(net)}

\* the preview has the first min(MAX_HOST_PREVIEW, count) usable hosts in order
PreviewRight(net, hosts) ==
  /\ Len(hosts) = (IF Cardinality(Usable(net)) < MAX_HOST_PREVIEW
                   THEN Cardinality(Usable(net)) ELSE MAX_HOST_PREVIEW)
  /\ \A i \in 1..Len(hosts) : hosts[i] = net.address + i /\ hosts[i] \in Usable(net)

\* C26: for every valid CIDR the result carries usable_hosts_preview, and it
\* is the first min(10, usable_hosts_count) usable hosts in ascending order,
\* without the network and the broadcast address.
C26_HostPreview ==
  ret # NoValue =>
    /\ ret[1].kind = "return"
    /\ ret[1].usable_hosts_count = Cardinality(Usable(IPv4Network(arg.address, arg.prefixlen)))
    /\ PreviewRight(IPv4Network(arg.address, arg.prefixlen), ret[1].usable_hosts_preview)

\* an unread line in the pipe is a reply that carries id i
AnswerInPipe(i) == \E k \in 1..Len(stdout) : IsReply(stdout[k]) /\ stdout[k].id = i

\* C27: in app.py a call_tool never takes the answer to an earlier request:
\* at the moment it writes its request no reply with the id it is going to
\* wait for lies unread in the pipe (the child cannot have answered yet).
C27_NoEarlierAnswerInApp ==
  [][(variant = "app" /\ rid = NoId /\ rid' # NoId /\ op' = "call") => ~AnswerInPipe(rid')]_vars

\* C28: what get_tool_list or call_tool returns comes from a Response or an
\* ErrorResponse: an envelope with the awaited id that has neither a result
\* nor an error is not taken as the answer.
C28_AnswerIsAReply ==
  (outcome.kind = "return" /\ outcome.op \in {"list", "call"}) => IsReply(outcome.env)

\* the child has answered the initialize request with an ErrorResponse that
\* lies in the pipe
InitializeRefused ==
  \E k \in 1..Len(stdout) :
    stdout[k].kind = "obj" /\ stdout[k].error # "none" /\ stdout[k].id \in Unawaited

\* a tools/list or tools/call request is written in this step
ToolRequestWritten ==
  /\ Len(stdin') = Len(stdin) + 1
  /\ stdin'[Len(stdin')].method \in {"tools/list", "tools/call"}

\* C29: once the child has answered initialize with an error, no tools/list
\* and no tools/call request is written to it.
C29_RefusedHandshakeStops == [][InitializeRefused => ~ToolRequestWritten]_vars

\* the signs among the disallowed terms, which need no blank around them
DisallowedSigns == {"|", ">", "<"}

\* trimmed and in lower case the command starts with show, none of its words
\* is a disallowed term and no disallowed sign occurs in it
AllowedCommand(command) ==
  LET c == strip(lower(command))
  IN  /\ startswith_show(c)
      /\ \A k \in 1..Len(split(c)) : split(c)[k] \notin disallowed_modifiers
      /\ \A i \in 1..Len(c) : c[i] \notin DisallowedSigns

\* C30: a command reaches the device only if it starts with show and contains
\* no disallowed term; any other command gets status error and no device is
\* connected to.
C30_OnlyShowCommandsReachDevice ==
  ret # NoValue =>
    /\ ret[1].reached => AllowedCommand(arg.command)
    /\ ~AllowedCommand(arg.command) => (ret[1].status = "error" /\ ~ret[1].connected)

\* the letter c is the letter l in some case
SameLetter(c, l) == c = l \/ (l = "e" /\ c = "E")

MentionsErase(t) ==
  \E i \in 1..(Len(t) - 4) : \A j \in 1..5 : SameLetter(t[i + j - 1], Erase[j])

\* C31: a configuration whose text contains "erase" in any letter case is
\* never applied: the result is an error, the device is neither connected
\* nor configured
C31_EraseNeverApplied ==
  (ret # NoValue /\ MentionsErase(arg.config))
    => (ret[1].status = "error" /\ ~ret[1].did_connect /\ ~ret[1].reached)

C31_Witness ==
  /\ ret # NoValue
  /\ arg.config = <<" ", "E", "r", "a", "s", "E">>
  /\ arg.device_known /\ arg.configure_ok
  /\ ret[1].status = "error" /\ ~ret[1].did_connect

ToolFailed(env) ==
  \/ ~env.device_known
  \/ ~env.connect_ok
  \/ (env.tool \in {"pyats_run_show_command", "pyats_configure_device",
                    "pyats_ping_from_network_device"} /\ ~env.valid)
  \/ (env.tool = "pyats_configure_device" /\ (env.empty \/ ~env.configure_ok))
  \/ (env.tool \in {"pyats_show_running_config", "pyats_show_logging"} /\ ~env.execute_ok)
  \/ (env.tool \in {"pyats_run_show_command", "pyats_ping_from_network_device",
                    "pyats_run_linux_command"} /\ ~env.parse_ok /\ ~env.execute_ok)

C33_ToolsNeverRaise ==
  ret # NoValue =>
    /\ ret[1].status \in {"completed", "completed_raw", "success", "error"}
    /\ ToolFailed(arg) => ret[1].status = "error"

C33_Witness ==
  /\ ret # NoValue
  /\ arg.tool = "pyats_run_show_command"
  /\ arg.valid /\ arg.device_known /\ ~arg.connect_ok
  /\ ret[1].status = "error"

\* C34: first_usable and last_usable are None exactly when usable_hosts_count
\* is 0; otherwise first_usable <= last_usable and both are usable hosts of
\* the network
C34_HostRangeAgrees ==
  (ret # NoValue /\ ret[1].kind = "return") =>
    IF ret[1].usable_hosts_count = 0
    THEN ret[1].first_usable = NoAddress /\ ret[1].last_usable = NoAddress
    ELSE /\ ret[1].first_usable # NoAddress /\ ret[1].last_usable # NoAddress
         /\ ret[1].first_usable <= ret[1].last_usable
         /\ ret[1].first_usable \in Usable(ret[1].network)
         /\ ret[1].last_usable \in Usable(ret[1].network)

\* the children of the session that are alive
LiveChildren == (IF proc_alive THEN 1 ELSE 0) + orphans

\* C35: in app.py at most one child is alive per session: a live child is the
\* one in the session state, start_mcp_server ends the previous child before
\* it spawns and the reset ends the child before it forgets it
C35_OneChildPerSession ==
  variant = "app" =>
    /\ LiveChildren <= 1
    /\ proc_alive => session_state.mcp_proc

C35_Witness ==
  /\ variant = "app" /\ spawns = 2
  /\ proc_alive /\ session_state.mcp_proc
  /\ LiveChildren = 1

\* C36: in app.py, whenever current_testbed is set a child for that testbed
\* is registered and its tools are discovered and cached, so that no chat
\* prompt is processed without tools
C36_TestbedHasChildAndTools ==
  (variant = "app" /\ pc \in {"app_idle", "app_run"} /\ session_state.current_testbed # 0)
    => (session_state.mcp_proc /\ session_state.tools)

\* C37: register_agents runs only after the server thread has created the
\* router agent: router_agent is not None when register_agent is called
C37_RouterCreatedBeforeRegister ==
  master.main \in {"register_summarizer", "register_qa"} => master.router_agent

====
